---- MODULE Spec2Model ----
(***************************************************************************)
(* Message dispatch and conversational session engine of arpen-telegram:   *)
(* the session middleware (middleware/session.js), the session bridge      *)
(* (TelegramSession) and the two revisions of Commander.process: the       *)
(* priority-table revision ("strict") and the multiple-match revision      *)
(* ("exclusive").                                                          *)
(***************************************************************************)
EXTENDS Naturals, Integers, Sequences, FiniteSets, TLC

\* ------------------------------------------------------------------ bounds
MaxEvents == 4      \* registrations and messages of one run
MaxInFlight == 2    \* messages between hydration and save at one time
MaxTokens == 2      \* random strings drawn by setCallback

Msgs == 1..MaxEvents
Tokens == 1..MaxTokens
NoToken == 0        \* ctx.session.callback is undefined
Ids == {1, 2}       \* ctx.from.id of the identities that write to the bot
NoId == 0
Texts == {"x", "y"} \* ctx.message.text
NoName == "none"
NoUser == "null"
Users == {"u1"}     \* records of the user repository
Names == {"n", "m"} \* ctx.from.first_name, metadata that may change between messages

\* from.id.toString(): the key of the session repository
TelegramId(id) == ToString(id)
TelegramIds == {TelegramId(id) : id \in Ids}
NoTelegramId == ""

\* ctx.from: given is FALSE when there is no from object at all, id is NoId
\* when the object carries no id
NoFrom == [given |-> FALSE, id |-> NoId, name |-> NoName]
Froms == {NoFrom} \cup [given : {TRUE}, id : Ids \cup {NoId}, name : Names]

\* ctx.from of the messages that identity id sends
From(id) == [given |-> TRUE, id |-> id, name |-> "n"]

\* ------------------------------------------------------------- data model
\* ctx.session / session.payload: the callback field and the handler's keys
EmptyPayload == [callback |-> NoToken, data |-> {}]

\* no session model (session is undefined / find returned null); id is the
\* row of the repository that a model was read from, 0 for a model that has
\* not been saved
NoSession == [id |-> 0, telegramId |-> NoTelegramId, payload |-> EmptyPayload,
              userId |-> NoUser, user |-> NoUser, info |-> NoFrom]

\* Commands that the application registers.  A pattern is the set of texts
\* its regular expression matches, a variant a list of patterns, a syntax a
\* list of variants; throws are the texts on which command.process throws.
CmdA == [name |-> "a", priority |-> 2, syntax |-> << << {"x", "y"} >> >>,
         throws |-> {}, setsCb |-> TRUE, hasProcess |-> TRUE]
CmdA0 == [name |-> "a", priority |-> 0, syntax |-> << << {"x", "y"} >> >>,
          throws |-> {}, setsCb |-> FALSE, hasProcess |-> TRUE]
CmdA1 == [name |-> "a", priority |-> 1, syntax |-> << << {"x", "y"} >> >>,
          throws |-> {}, setsCb |-> FALSE, hasProcess |-> TRUE]
CmdB == [name |-> "b", priority |-> 1, syntax |-> << << {"x"}, {"x", "y"} >>, << {"x", "y"}, {"x"} >> >>,
         throws |-> {}, setsCb |-> FALSE, hasProcess |-> TRUE]
CmdC == [name |-> "c", priority |-> 1, syntax |-> << << {"y"} >> >>,
         throws |-> {"y"}, setsCb |-> FALSE, hasProcess |-> TRUE]
CmdD == [name |-> "d", priority |-> 0, syntax |-> << << {"x", "y"} >> >>,
         throws |-> {}, setsCb |-> FALSE, hasProcess |-> FALSE]
Catalog == {CmdA, CmdA0, CmdA1, CmdB, CmdC, CmdD}

\* What a continuation does when it is invoked: return true, return false,
\* throw, or call setCallback again and return true.
Behaviours == {"true", "false", "throw", "again"}

\* servers.<name>.session.session_repository / .model are configured or not
\* (.user_repository is configured in each of them)
Configs == {[sessionRepo |-> TRUE, model |-> FALSE, userRepo |-> TRUE],
            [sessionRepo |-> FALSE, model |-> TRUE, userRepo |-> TRUE],
            [sessionRepo |-> FALSE, model |-> FALSE, userRepo |-> TRUE]}

VARIABLES
    revision,     \* which Commander is deployed: "strict" or "exclusive"
    config,       \* configuration of the session bridge
    started,      \* the bot has begun to receive messages
    adds,         \* number of addCommand / add calls made
    commands,     \* Commander.commands, a Map in insertion order
    priorities,   \* Commander._priorities
    callbacks,    \* Commander.callbacks: the tokens that hold a continuation
    nextId,       \* next value of util.getRandomString(32)
    store,        \* session repository: the rows of each telegram id, oldest first
    msgs,         \* per message: position in the middleware chain, its ctx,
                  \* solo: no message of the same identity was in flight with it,
                  \* latest: no message of the same identity arrived after it,
                  \* expect: what the message before it left behind
    previous,     \* per identity: what its latest message saved, once it has
    invoked,      \* the tokens whose continuation has been invoked
    failed,       \* identities for which a session save has failed
    last,         \* the most recent step of a message and what it did
    call          \* the most recent direct call of a bridge method and its result

\* the state of the dispatch engine
engine == <<revision, config, started, adds, commands, priorities, callbacks,
            nextId, store, msgs, previous, invoked, failed, last>>

vars == <<engine, call>>

\* The latest message of an identity has not been saved (yet); otherwise
\* payload is the ctx.session it saved and registered tells that it called
\* setCallback while it was handled
NotSaved == [saved |-> FALSE, registered |-> FALSE, payload |-> EmptyPayload]

\* A message that has not arrived yet, or whose ctx is gone
NewMsg == [pc |-> "new", from |-> NoId, session |-> NoSession,
           ctx |-> EmptyPayload, user |-> NoUser, solo |-> TRUE, latest |-> TRUE,
           expect |-> NotSaved, saves |-> 0, hydFailed |-> FALSE]

\* No step of a message has been taken yet
NoEvent == [kind |-> "none", m |-> 0, text |-> "x",
            hydFailed |-> FALSE, hadSession |-> FALSE, dirty |-> FALSE,
            pending |-> NoToken, found |-> FALSE, invoked |-> NoToken, twice |-> FALSE,
            behaviour |-> NoName,
            evaluated |-> <<>>, matched |-> {}, handler |-> NoName,
            result |-> FALSE, threw |-> FALSE, replied |-> FALSE,
            saves |-> 0, saveFailed |-> FALSE, logged |-> FALSE,
            outcome |-> "pending"]

\* ---------------------------------------------------------------- helpers
Range(s) == {s[i] : i \in 1..Len(s)}

\* Map.prototype.set on a Map kept in insertion order
MapSet(map, c) ==
    IF \E i \in 1..Len(map) : map[i].name = c.name
    THEN [i \in 1..Len(map) |-> IF map[i].name = c.name THEN c ELSE map[i]]
    ELSE Append(map, c)

\* Commander.getCommand: this.commands.get(name)
getCommand(map, name) == CHOOSE c \in Range(map) : c.name = name

\* Array.prototype.sort((a, b) => a.priority - b.priority) applied to an
\* array that was sorted before its last element was pushed: the stable sort
\* moves the last element behind every element of priority <= its own.
SortByPriority(arr) ==
    IF Len(arr) = 0 THEN arr
    ELSE LET pushed == arr[Len(arr)]
             head == SubSeq(arr, 1, Len(arr) - 1)
             k == Cardinality({i \in 1..Len(head) : head[i].priority <= pushed.priority})
         IN SubSeq(head, 1, k) \o <<pushed>> \o SubSeq(head, k + 1, Len(head))

\* Commander.addCommand, effect on _priorities
addCommandPriorities(prios, c) ==
    IF \E i \in 1..Len(prios) : prios[i].name = c.name
    THEN prios
    ELSE SortByPriority(Append(prios, [name |-> c.name, priority |-> c.priority]))

\* a variant succeeds when every pattern of it matches the text
VariantMatched(variant, text) == \A i \in 1..Len(variant) : text \in variant[i]

\* some variant of the command's syntax matched
CommandMatched(c, text) == \E v \in 1..Len(c.syntax) : VariantMatched(c.syntax[v], text)

\* command.process(commander, ctx, scene) of the priority-table revision
CommandProcess(c, text) ==
    IF text \in c.throws THEN "throw"
    ELSE IF CommandMatched(c, text) THEN "true" ELSE "false"

\* ------------------------------------------------------ Commander.process
\* Commander.setCallback: ctx.session.callback = id; callbacks.set(id, cb)
setCallback(ctx, cbs, id) ==
    [ctx |-> [ctx EXCEPT !.callback = id], callbacks |-> cbs \cup {id}]

\* Consume that leaves the field alone when the registry has no entry for it
ConsumeKeepsDangling(ctx, cbs) ==
    LET token == ctx.callback
        callback == token # NoToken /\ token \in cbs
        cleared == IF callback THEN [ctx EXCEPT !.callback = NoToken] ELSE ctx
    IN [ctx |-> cleared,
        pending |-> token,
        callback |-> IF callback THEN token ELSE NoToken,
        callbacks |-> IF callback THEN cbs \ {cleared.callback} ELSE cbs]

\* The callback check that opens process: callbacks.get(ctx.session.callback),
\* delete ctx.session.callback, and, when a continuation was found,
\* callbacks.delete(ctx.session.callback), whose argument is read after
\* the field was deleted.
Consume(ctx, cbs) ==
    LET token == ctx.callback
        callback == token # NoToken /\ token \in cbs
        cleared == IF token # NoToken THEN [ctx EXCEPT !.callback = NoToken] ELSE ctx
    IN [ctx |-> cleared,
        pending |-> token,
        callback |-> IF callback THEN token ELSE NoToken,
        callbacks |-> IF callback THEN cbs \ {cleared.callback} ELSE cbs]

\* Outcome of a process call that found nothing to run
NoEffect(ctx, cbs) ==
    [ctx |-> ctx, callbacks |-> cbs, invoked |-> NoToken, evaluated |-> <<>>,
     matched |-> {}, handler |-> NoName, result |-> FALSE, threw |-> FALSE,
     escaped |-> FALSE, logged |-> FALSE, replied |-> FALSE, usedId |-> FALSE]

\* Continue with process returning true whatever the continuation returned
ContinueAlwaysTrue(ctx, cbs, token, b, id) ==
    LET again == setCallback(ctx, cbs, id)
    IN [NoEffect(ctx, cbs) EXCEPT
            !.invoked = token,
            !.ctx = IF b = "again" THEN again.ctx ELSE ctx,
            !.callbacks = IF b = "again" THEN again.callbacks ELSE cbs,
            !.usedId = (b = "again"),
            !.result = (b # "throw"),
            !.threw = (b = "throw"),
            !.escaped = (b = "throw")]

\* return await callback(this, ctx, scene): the continuation behaves as b
Continue(ctx, cbs, token, b, id) ==
    LET again == setCallback(ctx, cbs, id)
    IN [NoEffect(ctx, cbs) EXCEPT
            !.invoked = token,
            !.ctx = IF b = "again" THEN again.ctx ELSE ctx,
            !.callbacks = IF b = "again" THEN again.callbacks ELSE cbs,
            !.usedId = (b = "again"),
            !.result = (b \in {"true", "again"}),
            !.threw = (b = "throw"),
            !.escaped = (b = "throw")]

\* What the handler of command c does once it accepts the message: it
\* writes its key to the payload and may ask for the next message
Handle(c, ctx, cbs, id) ==
    LET written == [ctx EXCEPT !.data = @ \cup {c.name}]
        asked == setCallback(written, cbs, id)
    IN [NoEffect(ctx, cbs) EXCEPT
            !.ctx = IF c.setsCb THEN asked.ctx ELSE written,
            !.callbacks = IF c.setsCb THEN asked.callbacks ELSE cbs,
            !.usedId = c.setsCb,
            !.handler = c.name,
            !.result = TRUE]

\* for (let item of this._priorities) of the priority-table revision, from
\* index i on: the first command whose process returns true ends the scan,
\* a command without a process function is skipped, an exception ends it
RECURSIVE ScanPriorities(_, _, _, _, _, _, _)
ScanPriorities(i, prios, map, text, ctx, cbs, id) ==
    IF i > Len(prios) THEN NoEffect(ctx, cbs)
    ELSE LET command == getCommand(map, prios[i].name)
             r == CommandProcess(command, text)
             rest == ScanPriorities(i + 1, prios, map, text, ctx, cbs, id)
         IN IF ~command.hasProcess THEN rest
            ELSE IF r = "true"
                 THEN [Handle(command, ctx, cbs, id) EXCEPT !.evaluated = <<command.name>>,
                                                           !.matched = {command.name}]
            ELSE IF r = "throw"
                 THEN [NoEffect(ctx, cbs) EXCEPT !.evaluated = <<command.name>>,
                                                 !.threw = TRUE, !.escaped = TRUE]
            ELSE [rest EXCEPT !.evaluated = <<command.name>> \o @]

\* ScanCommands without the multiple-match test: the first command with a
\* matched variant is triggered whatever follows it
RECURSIVE ScanCommandsFirstWins(_, _, _, _)
ScanCommandsFirstWins(i, map, text, triggered) ==
    IF i > Len(map) THEN [multiple |-> FALSE, triggered |-> triggered]
    ELSE IF CommandMatched(map[i], text) /\ triggered = NoName
         THEN ScanCommandsFirstWins(i + 1, map, text, map[i].name)
         ELSE ScanCommandsFirstWins(i + 1, map, text, triggered)

\* ScanCommands with every matched variant counted as a match of its own:
\* a command with two matched variants is a multiple match
RECURSIVE ScanCommandsPerVariant(_, _, _, _)
ScanCommandsPerVariant(i, map, text, triggered) ==
    IF i > Len(map) THEN [multiple |-> FALSE, triggered |-> triggered]
    ELSE LET n == Cardinality({v \in 1..Len(map[i].syntax) :
                                 VariantMatched(map[i].syntax[v], text)})
         IN IF n = 0 THEN ScanCommandsPerVariant(i + 1, map, text, triggered)
            ELSE IF triggered # NoName \/ n > 1
                 THEN [multiple |-> TRUE, triggered |-> map[i].name]
                 ELSE ScanCommandsPerVariant(i + 1, map, text, map[i].name)

\* for (let command of this.commands.values()) of the multiple-match
\* revision, from index i on with the command triggered so far: a second
\* command with a matched variant makes process return false
RECURSIVE ScanCommands(_, _, _, _)
ScanCommands(i, map, text, triggered) ==
    IF i > Len(map) THEN [multiple |-> FALSE, triggered |-> triggered]
    ELSE IF CommandMatched(map[i], text)
         THEN IF triggered # NoName
              THEN [multiple |-> TRUE, triggered |-> triggered]
              ELSE ScanCommands(i + 1, map, text, map[i].name)
         ELSE ScanCommands(i + 1, map, text, triggered)

\* Command matching of the multiple-match revision: the scan, then
\* triggered.process(this, ctx, match, scene), which throws when the command
\* has no process function or its handler throws
MatchExclusive(map, text, ctx, cbs, id) ==
    LET scan == ScanCommands(1, map, text, NoName)
        all == {map[i].name : i \in {j \in 1..Len(map) : CommandMatched(map[j], text)}}
        command == getCommand(map, scan.triggered)
    IN IF scan.multiple \/ scan.triggered = NoName
       THEN [NoEffect(ctx, cbs) EXCEPT !.matched = all]
       ELSE IF ~command.hasProcess \/ text \in command.throws
            THEN [NoEffect(ctx, cbs) EXCEPT !.matched = all, !.threw = TRUE,
                                            !.escaped = TRUE,
                                            !.evaluated = <<command.name>>]
            ELSE [Handle(command, ctx, cbs, id) EXCEPT !.matched = all,
                                                      !.evaluated = <<command.name>>]

\* tryProcess without the return in front of the continuation call: command
\* matching goes on after the continuation
tryProcessNoReturn(rev, ctx, cbs, map, prios, text, b, id) ==
    LET c == Consume(ctx, cbs)
        k == Continue(c.ctx, c.callbacks, c.callback, b, id)
        from == IF c.callback # NoToken /\ ~k.threw THEN k ELSE [ctx |-> c.ctx, callbacks |-> c.callbacks]
        scan == IF rev = "strict"
                THEN ScanPriorities(1, prios, map, text, from.ctx, from.callbacks, id)
                ELSE MatchExclusive(map, text, from.ctx, from.callbacks, id)
    IN IF c.callback # NoToken
       THEN IF k.threw \/ k.usedId THEN k ELSE [scan EXCEPT !.invoked = k.invoked]
       ELSE scan

\* The try block of Commander.process(ctx, scene) of the deployed revision
\* rev: the callback check, then either the continuation or command matching
tryProcess(rev, ctx, cbs, map, prios, text, b, id) ==
    LET c == Consume(ctx, cbs)
    IN IF c.callback # NoToken
       THEN Continue(c.ctx, c.callbacks, c.callback, b, id)
       ELSE IF rev = "strict"
            THEN ScanPriorities(1, prios, map, text, c.ctx, c.callbacks, id)
            ELSE MatchExclusive(map, text, c.ctx, c.callbacks, id)

\* Caught with a catch block that logs the error and throws it again
CaughtRethrown(rev, e) ==
    IF e.threw THEN [e EXCEPT !.logged = TRUE, !.result = FALSE] ELSE e

\* The catch block of Commander.process: the error is logged and process
\* returns false.  The multiple-match revision also tries to send an error
\* reply, but Markup is not defined in that file: building the arguments of
\* replyWithHTML throws inside the inner try and nothing is sent.
Caught(rev, e) ==
    IF e.threw
    THEN [e EXCEPT !.escaped = FALSE, !.logged = TRUE, !.result = FALSE, !.replied = FALSE]
    ELSE e

\* Commander.process(ctx, scene)
process(rev, ctx, cbs, map, prios, text, b, id) ==
    Caught(rev, tryProcess(rev, ctx, cbs, map, prios, text, b, id))

\* ---------------------------------------------------------- session bridge
\* the columns the session repository keeps of a session model
Record(session) == [session EXCEPT !.id = 0, !.user = NoUser]

\* this._sessionRepo.findByTelegramId(telegramId): the models of the rows
FindByTelegramId(repo, telegramId) ==
    IF telegramId \in DOMAIN repo
    THEN [i \in 1..Len(repo[telegramId]) |-> [repo[telegramId][i] EXCEPT !.id = i]]
    ELSE <<>>

\* this._userRepo.find(userId)
FindUser(userId) == IF userId \in Users THEN <<userId>> ELSE <<>>

\* find that returns the row as the repository gave it, info untouched
findStaleInfo(cfg, repo, telegramId, from) ==
    LET sessions == FindByTelegramId(repo, telegramId)
    IN IF ~cfg.sessionRepo \/ Len(sessions) = 0 THEN NoSession ELSE sessions[1]

\* TelegramSession.find(telegramId, from): null without a repository or
\* without a row, else the first row; a linked user id is resolved through
\* the user repository, when there is one, and info becomes from
find(cfg, repo, telegramId, from) ==
    LET sessions == FindByTelegramId(repo, telegramId)
        session == sessions[1]
        users == FindUser(session.userId)
    IN IF ~cfg.sessionRepo THEN NoSession
       ELSE IF Len(sessions) = 0 THEN NoSession
       ELSE [session EXCEPT
               !.user = IF session.userId # NoUser /\ cfg.userRepo
                        THEN IF Len(users) > 0 THEN users[1] ELSE NoUser
                        ELSE @,
               !.info = from]

\* TelegramSession.create throws 'No model for the bridge' when neither a
\* model nor a repository is configured
createThrows(cfg) == ~cfg.model /\ ~cfg.sessionRepo

\* !from || !from.id
InvalidFrom(from) == ~from.given \/ from.id = NoId

\* create without the test of from: the model is filled from whatever came
createUnchecked(cfg, user, from) ==
    IF createThrows(cfg)
    THEN [threw |-> TRUE, session |-> NoSession]
    ELSE [threw |-> FALSE,
          session |-> [NoSession EXCEPT !.telegramId = TelegramId(from.id),
                                        !.info = from, !.user = user]]

\* TelegramSession.create(user, from): a fresh model with the telegram id,
\* an empty payload, info and the user; userId is set when a user is given
create(cfg, user, from) ==
    IF createThrows(cfg) \/ InvalidFrom(from)
    THEN [threw |-> TRUE, session |-> NoSession]
    ELSE [threw |-> FALSE,
          session |-> [NoSession EXCEPT !.telegramId = TelegramId(from.id),
                                        !.payload = EmptyPayload,
                                        !.info = from,
                                        !.user = user,
                                        !.userId = IF user # NoUser THEN user ELSE @]]

\* RepoSave on a repository that does not keep the telegram ids apart
RepoSaveEverywhere(repo, session) ==
    [t \in DOMAIN repo |->
        IF session.id = 0 THEN Append(repo[t], Record(session))
        ELSE [i \in 1..Len(repo[t]) |-> IF i = session.id THEN Record(session) ELSE repo[t][i]]]

\* this._sessionRepo.save(session): a model read from a row updates that
\* row, a model that has no row yet is inserted as a new one
RepoSave(repo, session) ==
    LET rows == repo[session.telegramId]
    IN [repo EXCEPT ![session.telegramId] =
            IF session.id = 0 THEN Append(rows, Record(session))
            ELSE [i \in 1..Len(rows) |-> IF i = session.id THEN Record(session) ELSE rows[i]]]

\* save that leaves userId as the model had it
saveStaleUserId(cfg, repo, session, from) ==
    LET saved == [session EXCEPT !.info = from]
    IN IF cfg.sessionRepo THEN RepoSave(repo, saved) ELSE repo

\* TelegramSession.save(session, from): info becomes from, userId follows
\* session.user, then the repository, when there is one, stores the model
save(cfg, repo, session, from) ==
    LET saved == [session EXCEPT !.info = from, !.userId = session.user]
    IN IF cfg.sessionRepo THEN RepoSave(repo, saved) ELSE repo

\* every configuration of the bridge
BridgeConfigs == [sessionRepo : BOOLEAN, model : BOOLEAN, userRepo : BOOLEAN]

\* user ids that a stored row may carry: none, a user of the user
\* repository, or one the repository no longer has
Dangling == "u9"
UserIds == {NoUser, Dangling} \cup Users

\* rows that the repository may hold for one telegram id
StoredRows ==
    {<<>>} \cup
    { << [NoSession EXCEPT !.telegramId = TelegramId(1), !.payload = p,
                           !.userId = u, !.info = From(1)] >> :
         p \in {EmptyPayload, [callback |-> 1, data |-> {"a"}]}, u \in UserIds }

\* no bridge method has been called directly
NoCall == [op |-> "none", cfg |-> [sessionRepo |-> FALSE, model |-> FALSE, userRepo |-> FALSE],
           user |-> NoUser, from |-> NoFrom, telegramId |-> NoTelegramId,
           rows |-> <<>>, threw |-> FALSE, out |-> NoSession,
           session |-> NoSession, saved |-> <<>>]

\* Updated without the try around update: the exception rejects the promise
UpdatedUncaught(cfg, repo, session, from, fails) ==
    IF fails
    THEN [store |-> repo, logged |-> FALSE, outcome |-> "rejected"]
    ELSE [store |-> save(cfg, repo, session, from), logged |-> FALSE, outcome |-> "resolved"]

\* The then-callback of the session middleware for a session that exists:
\* update saves through the bridge; an exception is logged and swallowed
Updated(cfg, repo, session, from, fails) ==
    IF fails
    THEN [store |-> repo, logged |-> TRUE, outcome |-> "resolved"]
    ELSE [store |-> save(cfg, repo, session, from), logged |-> FALSE, outcome |-> "resolved"]

\* ------------------------------------------------------------------ actions
\* the configurations of the bridge that behave differently
Init ==
    /\ revision \in {"strict", "exclusive"}
    /\ config \in Configs
    /\ started = FALSE
    /\ adds = 0
    /\ commands = <<>>
    /\ priorities = <<>>
    /\ callbacks = {}
    /\ nextId = 1
    /\ store = [t \in TelegramIds |->
                   IF t = TelegramId(1)
                   THEN << [NoSession EXCEPT !.telegramId = t, !.userId = "u1",
                                             !.info = From(1)] >>
                   ELSE <<>>]
    /\ msgs = [m \in Msgs |-> NewMsg]
    /\ previous = [id \in Ids |-> NotSaved]
    /\ invoked = {}
    /\ failed = {}
    /\ last = NoEvent
    /\ call = NoCall

\* Commander.addCommand(command) of the priority-table revision
addCommand(c) ==
    /\ revision = "strict"
    /\ ~started
    /\ adds < MaxEvents
    /\ adds' = adds + 1
    /\ commands' = MapSet(commands, c)
    /\ priorities' = addCommandPriorities(priorities, c)
    /\ UNCHANGED <<call, revision, config, started, callbacks, nextId, store, msgs,
                   previous, invoked, failed, last>>

\* Commander.add(command) of the multiple-match revision
add(c) ==
    /\ revision = "exclusive"
    /\ ~started
    /\ adds < MaxEvents
    /\ adds' = adds + 1
    /\ commands' = MapSet(commands, c)
    /\ UNCHANGED <<call, revision, config, started, priorities, callbacks, nextId, store,
                   msgs, previous, invoked, failed, last>>

\* Hydrated with the exception raised after the payload and the user of the
\* loaded session were copied into ctx
HydratedAfterCopy(cfg, repo, from, fails) ==
    LET loaded == find(cfg, repo, TelegramId(from.id), from)
        created == create(cfg, NoUser, from)
        thrown == fails \/ (loaded = NoSession /\ created.threw)
        session == IF loaded # NoSession THEN loaded ELSE created.session
    IN IF thrown
       THEN [session |-> NoSession, ctx |-> loaded.payload, user |-> loaded.user, failed |-> TRUE]
       ELSE [session |-> session, ctx |-> session.payload, user |-> session.user, failed |-> FALSE]

\* Hydrated with the session model assigned before the step that throws, so
\* that the then-callback finds a session to update
HydratedKeepsSession(cfg, repo, from, fails) ==
    LET loaded == find(cfg, repo, TelegramId(from.id), from)
        created == create(cfg, NoUser, from)
        thrown == fails \/ (loaded = NoSession /\ created.threw)
        session == IF loaded # NoSession THEN loaded ELSE created.session
    IN IF thrown
       THEN [session |-> loaded, ctx |-> EmptyPayload, user |-> NoUser, failed |-> TRUE]
       ELSE [session |-> session, ctx |-> session.payload, user |-> session.user, failed |-> FALSE]

\* The session middleware up to the call of next(): ctx.session = {},
\* ctx.user = null, then load or create the session and copy its payload;
\* an exception of load or create is logged and leaves session undefined
Hydrated(cfg, repo, from, fails) ==
    LET loaded == find(cfg, repo, TelegramId(from.id), from)
        created == create(cfg, NoUser, from)
        thrown == fails \/ (loaded = NoSession /\ created.threw)
        session == IF loaded # NoSession THEN loaded ELSE created.session
    IN IF thrown
       THEN [session |-> NoSession, ctx |-> EmptyPayload, user |-> NoUser, failed |-> TRUE]
       ELSE [session |-> session, ctx |-> session.payload, user |-> session.user, failed |-> FALSE]

\* number of messages that have arrived, and of those still being handled
Delivered == Cardinality({m \in Msgs : msgs[m].pc # "new"})
InFlight == Cardinality({m \in Msgs : msgs[m].pc \in {"downstream", "processed"}})

\* A message from identity id arrives and passes the first half of the
\* session middleware.  The payload of the session model is not kept with
\* the message: it was copied into ctx.session and is replaced by it before
\* the model is read again.
Hydrate(m, id, fails) ==
    /\ msgs[m].pc = "new"
    /\ m = Delivered + 1
    /\ adds + Delivered < MaxEvents
    /\ InFlight < MaxInFlight
    /\ fails => config.sessionRepo
    /\ LET h == Hydrated(config, store, From(id), fails)
           others == {k \in Msgs : msgs[k].pc \in {"downstream", "processed"}
                                     /\ msgs[k].from = id}
       IN /\ msgs' = [k \in Msgs |->
                        IF k = m
                        THEN [msgs[k] EXCEPT
                                !.pc = "downstream", !.from = id,
                                !.session = [h.session EXCEPT !.payload = EmptyPayload],
                                !.ctx = h.ctx, !.user = h.user,
                                !.solo = (others = {}), !.hydFailed = h.failed,
                                !.expect = IF h.failed THEN NotSaved ELSE previous[id]]
                        ELSE IF k \in others
                             THEN [msgs[k] EXCEPT !.solo = FALSE, !.latest = FALSE]
                        ELSE msgs[k]]
          /\ previous' = [previous EXCEPT ![id] = NotSaved]
          /\ last' = [NoEvent EXCEPT !.kind = "hydrate", !.m = m,
                        !.hydFailed = h.failed, !.logged = h.failed,
                        !.hadSession = (h.session # NoSession)]
    /\ started' = TRUE
    /\ UNCHANGED <<call, revision, config, adds, commands, priorities, callbacks, nextId,
                   store, invoked, failed>>

\* A downstream handler calls ctx.commander.process(scene); text is
\* ctx.message.text, which process is the first to read
Process(m, text, b) ==
    /\ msgs[m].pc = "downstream"
    /\ LET e == process(revision, msgs[m].ctx, callbacks, commands, priorities,
                        text, b, nextId)
           c == Consume(msgs[m].ctx, callbacks)
       IN /\ e.usedId => nextId <= MaxTokens
          /\ msgs' = [msgs EXCEPT ![m] =
                        IF e.escaped THEN [NewMsg EXCEPT !.pc = "done"]
                        ELSE [@ EXCEPT !.pc = "processed", !.ctx = e.ctx]]
          /\ last' = [NoEvent EXCEPT !.kind = "process", !.m = m, !.text = text,
                        !.hadSession = (msgs[m].session # NoSession),
                        !.pending = c.pending, !.found = (c.callback # NoToken),
                        !.invoked = e.invoked, !.twice = (e.invoked \in invoked),
                        !.behaviour = IF c.callback # NoToken THEN b ELSE NoName,
                        !.evaluated = e.evaluated,
                        !.matched = e.matched, !.handler = e.handler,
                        !.result = e.result, !.threw = e.threw,
                        !.replied = e.replied, !.logged = e.logged,
                        !.outcome = IF e.escaped THEN "rejected" ELSE "pending"]
          /\ callbacks' = e.callbacks
          /\ nextId' = IF e.usedId THEN nextId + 1 ELSE nextId
          /\ invoked' = IF e.invoked # NoToken THEN invoked \cup {e.invoked} ELSE invoked
    /\ UNCHANGED <<call, revision, config, started, adds, commands, priorities, store,
                   previous, failed>>

\* A downstream middleware throws outside Commander.process: the promise of
\* next() rejects, the then-callback of the session middleware is skipped
\* and the promise of the middleware rejects
Reject(m) ==
    /\ msgs[m].pc \in {"downstream", "processed"}
    /\ msgs' = [msgs EXCEPT ![m] = [NewMsg EXCEPT !.pc = "done"]]
    /\ last' = [NoEvent EXCEPT !.kind = "end", !.m = m,
                  !.hadSession = (msgs[m].session # NoSession),
                  !.saves = msgs[m].saves, !.outcome = "rejected"]
    /\ UNCHANGED <<call, revision, config, started, adds, commands, priorities, callbacks,
                   nextId, store, previous, invoked, failed>>

\* next() resolved: the then-callback of the session middleware copies
\* ctx.session and ctx.user into the session and calls update, which saves
\* through the bridge; an exception of update is logged
Save(m, fails) ==
    /\ msgs[m].pc \in {"downstream", "processed"}
    /\ fails => (msgs[m].session # NoSession /\ config.sessionRepo)
    /\ LET has == msgs[m].session # NoSession
           session == [msgs[m].session EXCEPT !.payload = msgs[m].ctx, !.user = msgs[m].user]
           u == Updated(config, store, session, From(msgs[m].from), fails)
       IN /\ store' = IF has THEN u.store ELSE store
          /\ last' = [NoEvent EXCEPT !.kind = "end", !.m = m,
                        !.hadSession = has, !.hydFailed = msgs[m].hydFailed,
                        !.dirty = (msgs[m].hydFailed /\ msgs[m].ctx # EmptyPayload),
                        !.saves = IF has THEN msgs[m].saves + 1 ELSE msgs[m].saves,
                        !.saveFailed = fails,
                        !.logged = IF has THEN u.logged ELSE FALSE,
                        !.outcome = IF has THEN u.outcome ELSE "resolved"]
          /\ failed' = IF fails THEN failed \cup {msgs[m].from} ELSE failed
          /\ previous' = IF has /\ ~fails /\ config.sessionRepo /\ msgs[m].latest
                         THEN [previous EXCEPT ![msgs[m].from] =
                                 [saved |-> TRUE,
                                  registered |-> (msgs[m].pc = "processed"
                                                    /\ msgs[m].ctx.callback # NoToken),
                                  payload |-> msgs[m].ctx]]
                         ELSE previous
    /\ msgs' = [msgs EXCEPT ![m] = [NewMsg EXCEPT !.pc = "done"]]
    /\ UNCHANGED <<call, revision, config, started, adds, commands, priorities, callbacks,
                   nextId, invoked>>

\* The process is started again between two messages: the Commander is
\* constructed anew and the application registers its commands as before;
\* the registry of continuations is empty while the sessions are still in
\* the repository
Restart ==
    /\ InFlight = 0
    /\ callbacks # {}
    /\ callbacks' = {}
    /\ last' = [NoEvent EXCEPT !.kind = "restart"]
    /\ UNCHANGED <<call, revision, config, started, adds, commands, priorities, nextId,
                   store, msgs, previous, invoked, failed>>

Next ==
    \/ \E c \in Catalog : addCommand(c)
    \/ \E c \in Catalog : add(c)
    \/ \E m \in Msgs, id \in Ids, fails \in BOOLEAN : Hydrate(m, id, fails)
    \/ \E m \in Msgs, text \in Texts, b \in Behaviours : Process(m, text, b)
    \/ \E m \in Msgs : Reject(m)
    \/ \E m \in Msgs, fails \in BOOLEAN : Save(m, fails)
    \/ Restart

Spec == Init /\ [][Next]_vars

\* ------------------------------------------------- the bridge called directly
\* (each behaviour is one call, made on a bridge that has just been constructed)
\* bridge.create(user, from) under configuration cfg
CallCreate(cfg, user, from) ==
    /\ call.op = "none"
    /\ LET r == create(cfg, user, from)
       IN call' = [NoCall EXCEPT !.op = "create", !.cfg = cfg, !.user = user,
                                 !.from = from, !.threw = r.threw, !.out = r.session]
    /\ UNCHANGED engine

\* bridge.find(telegramId, from) under configuration cfg, with the
\* repository holding rows for the first identity
CallFind(cfg, rows, telegramId, from) ==
    /\ call.op = "none"
    /\ LET repo == [t \in TelegramIds |-> IF t = TelegramId(1) THEN rows ELSE <<>>]
       IN call' = [NoCall EXCEPT !.op = "find", !.cfg = cfg, !.from = from,
                                 !.telegramId = telegramId, !.rows = repo[telegramId],
                                 !.out = find(cfg, repo, telegramId, from)]
    /\ UNCHANGED engine

\* session models that a caller may hand to save: read from the first row
\* or not saved yet, with or without a user, whatever userId they carry
SavedModels ==
    { [NoSession EXCEPT !.id = i, !.telegramId = TelegramId(1), !.payload = p,
                        !.user = u, !.userId = v, !.info = From(1)] :
        i \in {0, 1}, p \in {EmptyPayload, [callback |-> 1, data |-> {"a"}]},
        u \in Users \cup {NoUser}, v \in UserIds }

\* bridge.save(session, from) under configuration cfg, with the repository
\* holding rows for the first identity
CallSave(cfg, rows, session, from) ==
    /\ call.op = "none"
    /\ session.id <= Len(rows)
    /\ LET repo == [t \in TelegramIds |-> IF t = TelegramId(1) THEN rows ELSE <<>>]
       IN call' = [NoCall EXCEPT !.op = "save", !.cfg = cfg, !.from = from,
                                 !.telegramId = session.telegramId, !.rows = rows,
                                 !.session = session,
                                 !.saved = save(cfg, repo, session, from)[session.telegramId]]
    /\ UNCHANGED engine

\* one message of the first identity through the session middleware, the
\* repository holding rows, with a handler that changes neither ctx.session
\* nor ctx.user
CallMiddleware(cfg, rows) ==
    /\ call.op = "none"
    /\ LET repo == [t \in TelegramIds |-> IF t = TelegramId(1) THEN rows ELSE <<>>]
           h == Hydrated(cfg, repo, From(1), FALSE)
           session == [h.session EXCEPT !.payload = h.ctx, !.user = h.user]
           after == IF h.session = NoSession THEN repo
                    ELSE Updated(cfg, repo, session, From(1), FALSE).store
       IN call' = [NoCall EXCEPT !.op = "message", !.cfg = cfg, !.from = From(1),
                                 !.telegramId = TelegramId(1), !.rows = rows,
                                 !.threw = h.failed, !.session = h.session,
                                 !.saved = after[TelegramId(1)]]
    /\ UNCHANGED engine

BridgeNext ==
    \/ \E cfg \in BridgeConfigs, user \in Users \cup {NoUser}, from \in Froms :
          CallCreate(cfg, user, from)
    \/ \E cfg \in BridgeConfigs, rows \in StoredRows, t \in TelegramIds, from \in Froms :
          CallFind(cfg, rows, t, from)
    \/ \E cfg \in BridgeConfigs, rows \in StoredRows, session \in SavedModels, from \in Froms :
          CallSave(cfg, rows, session, from)

\* the engine stands still in one of its initial states
    \/ \E cfg \in BridgeConfigs, rows \in StoredRows : CallMiddleware(cfg, rows)

BridgeInit == Init /\ revision = "strict" /\ config.sessionRepo

BridgeSpec == BridgeInit /\ [][BridgeNext]_vars

\* ------------------------------------------------------- the calendar widget
\* the years the pages stay within
Years == {2024}

\* a Date of local time, by getFullYear(), getMonth() + 1 and getDate()
NoDate == [y |-> 0, m |-> 0, d |-> 0]

\* new Date(year, month + 1, 0).getDate(): the last day of the month
DaysIn(y, m) ==
    IF m = 2 THEN (IF (y % 4 = 0 /\ y % 100 # 0) \/ y % 400 = 0 THEN 29 ELSE 28)
    ELSE IF m \in {4, 6, 9, 11} THEN 30 ELSE 31

\* the Date of year y, month m and day d as Date normalises them: a month
\* outside 1..12 moves the year, a day outside the month moves the month
RECURSIVE MakeDate(_, _, _)
MakeDate(y, m, d) ==
    IF m < 1 THEN MakeDate(y - 1, m + 12, d)
    ELSE IF m > 12 THEN MakeDate(y + 1, m - 12, d)
    ELSE IF d < 1 THEN (IF m = 1 THEN MakeDate(y - 1, 12, d + 31)
                        ELSE MakeDate(y, m - 1, d + DaysIn(y, m - 1)))
    ELSE IF d > DaysIn(y, m) THEN MakeDate(y, m + 1, d - DaysIn(y, m))
    ELSE [y |-> y, m |-> m, d |-> d]

\* date.setMonth(month)
setMonth(date, m) == MakeDate(date.y, m, date.d)

\* Calendar.toYyyymmdd(date): the local year, month and day, zero padded
toYyyymmdd(date) == <<date.y, date.m, date.d>>

\* new Date('YYYY-MM-DD'): midnight UTC of that day, which in a time zone west
\* of Greenwich is the evening of the day before in local time
ParseDate(west, ymd) ==
    IF west THEN MakeDate(ymd[1], ymd[2], ymd[3] - 1)
    ELSE [y |-> ymd[1], m |-> ymd[2], d |-> ymd[3]]

\* Calendar.isSameMonth(myDate, testDate)
isSameMonth(myDate, testDate) ==
    IF myDate = NoDate THEN FALSE
    ELSE myDate.y = testDate.y /\ myDate.m = testDate.m

\* Calendar._getMinDay(date)
getMinDay(cal, date) ==
    IF isSameMonth(cal.minDate, date) THEN cal.minDate.d ELSE 1

\* Calendar._getMaxDay(date)
getMaxDay(cal, date) ==
    IF isSameMonth(cal.maxDate, date) THEN cal.maxDate.d ELSE DaysIn(date.y, date.m)

\* no keyboard has been produced
NoPage == [date |-> NoDate, prev |-> <<>>, next |-> <<>>, selectable |-> {}, current |-> FALSE]

\* Calendar._getPage(ctx, m, date): the header offers '<' and '>' with the
\* date of the page unless the page is the min (max) month, and the body
\* offers a -date- button for every day from minDay to maxDay and a struck
\* through -ignore button for the others
getPage(cal, date) ==
    [date |-> date,
     prev |-> IF isSameMonth(cal.minDate, date) THEN <<>> ELSE toYyyymmdd(date),
     next |-> IF isSameMonth(cal.maxDate, date) THEN <<>> ELSE toYyyymmdd(date),
     selectable |-> {d \in 1..DaysIn(date.y, date.m) :
                       ~(d < getMinDay(cal, date) \/ d > getMaxDay(cal, date))},
     current |-> TRUE]

\* the dates given to setMinDate and setMaxDate and met as today
CalendarDates ==
    {[y |-> 2024, m |-> 1, d |-> 31], [y |-> 2024, m |-> 2, d |-> 15],
     [y |-> 2024, m |-> 3, d |-> 10]}

\* constructor(app, logger), in a process whose time zone is west of
\* Greenwich or not
NewCalendar(west) ==
    [op |-> "calendar", west |-> west, handler |-> FALSE, minDate |-> NoDate,
     maxDate |-> NoDate, installed |-> FALSE, page |-> NoPage]

\* the service is instantiated
Calendar(west) ==
    /\ call.op = "none"
    /\ call' = NewCalendar(west)
    /\ UNCHANGED engine

\* set handler(handler)
setHandler(h) ==
    /\ call.op = "calendar"
    /\ call' = [call EXCEPT !.handler = h]
    /\ UNCHANGED engine

\* setMinDate(date); the keyboards already sent keep the limits they were
\* made with
setMinDate(date) ==
    /\ call.op = "calendar"
    /\ call' = [call EXCEPT !.minDate = date, !.page.current = FALSE]
    /\ UNCHANGED engine

\* setMaxDate(date)
setMaxDate(date) ==
    /\ call.op = "calendar"
    /\ call' = [call EXCEPT !.maxDate = date, !.page.current = FALSE]
    /\ UNCHANGED engine

\* getCalendar(ctx, scene), today being the value of new Date(): nothing is
\* returned without a handler
getCalendar(today) ==
    /\ call.op = "calendar"
    /\ call.handler
    /\ call' = [call EXCEPT !.installed = TRUE, !.page = getPage(call, today)]
    /\ UNCHANGED engine

\* the action handler of <prefix>-prev-<date>, on the '<' button of the
\* keyboard
prevHandler ==
    /\ call.op = "calendar" /\ call.installed
    /\ call.page.prev # <<>>
    /\ LET parsed == ParseDate(call.west, call.page.prev)
           date == setMonth(parsed, parsed.m - 1)
       IN /\ date.y \in Years
          /\ call' = [call EXCEPT !.page = getPage(call, date)]
    /\ UNCHANGED engine

\* the action handler of <prefix>-next-<date>, on the '>' button of the
\* keyboard
nextHandler ==
    /\ call.op = "calendar" /\ call.installed
    /\ call.page.next # <<>>
    /\ LET parsed == ParseDate(call.west, call.page.next)
           date == setMonth(parsed, parsed.m + 1)
       IN /\ date.y \in Years
          /\ call' = [call EXCEPT !.page = getPage(call, date)]
    /\ UNCHANGED engine

CalendarNext ==
    \/ \E west \in BOOLEAN : Calendar(west)
    \/ \E h \in BOOLEAN : setHandler(h)
    \/ \E date \in CalendarDates \cup {NoDate} : setMinDate(date)
    \/ \E date \in CalendarDates \cup {NoDate} : setMaxDate(date)
    \/ \E today \in CalendarDates : getCalendar(today)
    \/ prevHandler
    \/ nextHandler

CalendarSpec == BridgeInit /\ [][CalendarNext]_vars

\* ------------------------------------------- the text helpers of the commander
\* (words are written in Latin transliteration; a text is the sequence of its
\* words and literal dates)
\* a word of a text
Word(w) == [kind |-> "word", w |-> w, parts |-> <<>>]

\* a literal date of a text: its kind is its form (YYYY-MM-DD, DD.MM.YYYY,
\* DD/MM/YYYY, DD.MM, DD/MM) and its parts are the numbers its digit groups
\* denote, in the order they are written
DateToken(kind, parts) == [kind |-> kind, w |-> "", parts |-> parts]

\* now.year()
CurrentYear == 2026

\* the literal dates of the texts: days 00, 05 and 17, month 03, years 0024
\* and 2024
DateTokens ==
    LET Days == {0, 5, 17}
        Months == {3}
        WrittenYears == {24, 2024}
    IN {DateToken("iso", <<y, m, d>>) : y \in WrittenYears, m \in Months, d \in Days}
       \cup {DateToken(k, <<d, m, y>>) : k \in {"dotLong", "slashLong"},
                                         d \in Days, m \in Months, y \in WrittenYears}
       \cup {DateToken(k, <<d, m>>) : k \in {"dotShort", "slashShort"},
                                      d \in Days, m \in Months}

\* the longest text
MaxWords == 2

TextsOf(tokens) == UNION {[1..n -> tokens] : n \in 0..MaxWords}

\* String.prototype.toLowerCase on one word
LowerWord(w) ==
    CASE w = "Zavtra" -> "zavtra"
      [] w = "Tomorrow" -> "tomorrow"
      [] OTHER -> w

\* input.toLowerCase()
toLowerCase(input) == [i \in 1..Len(input) |-> [input[i] EXCEPT !.w = LowerWord(@)]]

\* the digit groups of a literal date, which the tokenizers split it into
Digits(t) == [i \in 1..Len(t.parts) |-> ToString(t.parts[i])]

\* natural.PorterStemmerRu.tokenizeAndStem on one token: Russian stop words
\* are dropped and the inflection is cut off
PorterStemmerRu(t) ==
    IF t.kind # "word" THEN Digits(t)
    ELSE CASE t.w = "i" -> <<>>
           [] t.w \in {"pyatnitsa", "pyatnitsu"} -> <<"pyatnits">>
           [] t.w \in {"sreda", "sredu"} -> <<"sred">>
           [] t.w = "nedeli" -> <<"nedel">>
           [] t.w = "zavtra" -> <<"zavtr">>
           [] t.w = "vchera" -> <<"vcher">>
           [] t.w = "voskresenye" -> <<"voskresen">>
           [] t.w = "subbota" -> <<"subbot">>
           [] OTHER -> <<t.w>>

\* natural.PorterStemmer.tokenizeAndStem on one token: English stop words
\* are dropped and the suffix is cut off
PorterStemmer(t) ==
    IF t.kind # "word" THEN Digits(t)
    ELSE CASE t.w \in {"i", "will"} -> <<>>
           [] t.w \in {"coming", "come"} -> <<"come">>
           [] OTHER -> <<t.w>>

RECURSIVE StemFrom(_, _, _)
StemFrom(ru, input, i) ==
    IF i > Len(input) THEN <<>>
    ELSE (IF ru THEN PorterStemmerRu(input[i]) ELSE PorterStemmer(input[i]))
             \o StemFrom(ru, input, i + 1)

\* Commander.stem(locale, input), this._i18n.defaultLocale being default
stem(locale, default, input) ==
    LET loc == IF locale = "" THEN default ELSE locale
    IN StemFrom(loc = "ru", toLowerCase(input), 1)

\* hasAll that looks at the first stem of search only
hasAllFirstOnly(locale, default, input, search) ==
    LET inputTokens == stem(locale, default, input)
        searchTokens == stem(locale, default, search)
    IN searchTokens = <<>> \/ searchTokens[1] \in Range(inputTokens)

RECURSIVE hasAllFrom(_, _, _)
hasAllFrom(inputTokens, searchTokens, i) ==
    IF i > Len(searchTokens) THEN TRUE
    ELSE IF searchTokens[i] \notin Range(inputTokens) THEN FALSE
    ELSE hasAllFrom(inputTokens, searchTokens, i + 1)

\* Commander.hasAll(locale, input, search)
hasAll(locale, default, input, search) ==
    hasAllFrom(stem(locale, default, input), stem(locale, default, search), 1)

RECURSIVE hasAnyFrom(_, _, _)
hasAnyFrom(inputTokens, searchTokens, i) ==
    IF i > Len(searchTokens) THEN FALSE
    ELSE IF searchTokens[i] \in Range(inputTokens) THEN TRUE
    ELSE hasAnyFrom(inputTokens, searchTokens, i + 1)

\* Commander.hasAny(locale, input, search)
hasAny(locale, default, input, search) ==
    hasAnyFrom(stem(locale, default, input), stem(locale, default, search), 1)

\* a regular expression: a literal word, or one of the date patterns
Literal(w) == [kind |-> "literal", w |-> w]
DatePattern(kind) == [kind |-> kind, w |-> ""]

\* the regular expression re finds a match in token t: the patterns are not
\* anchored, so (\d\d)\.(\d\d) is also found in DD.MM.YYYY, and (\d\d)\/(\d\d)
\* in DD/MM/YYYY
Finds(re, t) ==
    CASE re.kind = "literal" -> t.kind = "word" /\ t.w = re.w
      [] re.kind = "iso" -> t.kind = "iso"
      [] re.kind = "long_dot" -> t.kind = "dotLong"
      [] re.kind = "long_slash" -> t.kind = "slashLong"
      [] re.kind = "short_dot" -> t.kind \in {"dotLong", "dotShort"}
      [] re.kind = "short_slash" -> t.kind \in {"slashLong", "slashShort"}

\* null of RegExp.prototype.exec
NoExec == [found |-> FALSE, token |-> 0, groups |-> <<>>]

\* re.exec(input): the leftmost match and its capture groups
exec(re, input) ==
    LET hits == {i \in 1..Len(input) : Finds(re, input[i])}
    IN IF hits = {} THEN NoExec
       ELSE LET i == CHOOSE h \in hits : \A g \in hits : h <= g
            IN [found |-> TRUE, token |-> i,
                groups |-> IF re.kind = "literal" THEN <<>>
                           ELSE IF re.kind \in {"short_dot", "short_slash"}
                                THEN SubSeq(input[i].parts, 1, 2)
                                ELSE input[i].parts]

\* results[variant] = false
NoMatch == [ok |-> FALSE, subs |-> <<>>]

\* for (let re of Object.keys(syntax[variant])): the sub-matches of the
\* patterns, or false at the first pattern that does not match
RECURSIVE MatchVariant(_, _, _, _)
MatchVariant(input, variant, i, subs) ==
    IF i > Len(variant) THEN [ok |-> TRUE, subs |-> subs]
    ELSE LET m == exec(variant[i], input)
         IN IF ~m.found THEN NoMatch
            ELSE MatchVariant(input, variant, i + 1, Append(subs, m))

\* the result of match: false, or the results of all the variants
Matched(low, syntax) ==
    LET results == [v \in DOMAIN syntax |-> MatchVariant(low, syntax[v], 1, <<>>)]
    IN IF \E v \in DOMAIN syntax : results[v].ok
       THEN [matched |-> TRUE, results |-> results]
       ELSE [matched |-> FALSE, results |-> <<>>]

\* match on the input as it was typed
matchRaw(input, syntax) == Matched(input, syntax)

\* Commander.match(input, syntax)
match(input, syntax) == Matched(toLowerCase(input), syntax)

\* dateSyntax of locale ru
dateSyntax ==
    [iso |-> <<DatePattern("iso")>>,
     long_locale_1 |-> <<DatePattern("long_dot")>>,
     long_locale_2 |-> <<DatePattern("long_slash")>>,
     short_locale_1 |-> <<DatePattern("short_dot")>>,
     short_locale_2 |-> <<DatePattern("short_slash")>>]

\* the results of extractDate: null, a moment of a calendar day, a day of the
\* current week, or a day relative to now
NoMoment == [kind |-> "none", y |-> 0, m |-> 0, d |-> 0, day |-> "", days |-> 0]
Moment(y, m, d) == [NoMoment EXCEPT !.kind = "date", !.y = y, !.m = m, !.d = d]
WeekDay(name) == [NoMoment EXCEPT !.kind = "weekday", !.day = name]
Relative(days) == [NoMoment EXCEPT !.kind = "relative", !.days = days]

\* if (year && month && day) { if (year < 1000) year += 2000; moment(...) }
MomentOf(year, month, day) ==
    IF year # 0 /\ month # 0 /\ day # 0
    THEN Moment(IF year < 1000 THEN year + 2000 ELSE year, month, day)
    ELSE NoMoment

\* LiteralDate with the short grammars asked first
LiteralDateShortFirst(r) ==
    LET g(v) == r[v].subs[1].groups
    IN IF r.short_locale_1.ok
       THEN MomentOf(CurrentYear, g("short_locale_1")[2], g("short_locale_1")[1])
       ELSE IF r.short_locale_2.ok
       THEN MomentOf(CurrentYear, g("short_locale_2")[2], g("short_locale_2")[1])
       ELSE IF r.iso.ok
       THEN MomentOf(g("iso")[1], g("iso")[2], g("iso")[3])
       ELSE IF r.long_locale_1.ok
       THEN MomentOf(g("long_locale_1")[3], g("long_locale_1")[2], g("long_locale_1")[1])
       ELSE MomentOf(g("long_locale_2")[3], g("long_locale_2")[2], g("long_locale_2")[1])

\* if (match.iso) ... else if (match.long_locale_1) ... : the date of the
\* first grammar that matched, r being the results of match
LiteralDate(r) ==
    LET g(v) == r[v].subs[1].groups
    IN IF r.iso.ok
       THEN MomentOf(g("iso")[1], g("iso")[2], g("iso")[3])
       ELSE IF r.long_locale_1.ok
       THEN MomentOf(g("long_locale_1")[3], g("long_locale_1")[2], g("long_locale_1")[1])
       ELSE IF r.long_locale_2.ok
       THEN MomentOf(g("long_locale_2")[3], g("long_locale_2")[2], g("long_locale_2")[1])
       ELSE IF r.short_locale_1.ok
       THEN MomentOf(CurrentYear, g("short_locale_1")[2], g("short_locale_1")[1])
       ELSE MomentOf(CurrentYear, g("short_locale_2")[2], g("short_locale_2")[1])

\* the keywords of locale ru
keywords ==
    [sunday |-> <<Word("voskresenye")>>, monday |-> <<Word("ponedelnik")>>,
     tuesday |-> <<Word("vtornik")>>, wednesday |-> <<Word("sreda")>>,
     thursday |-> <<Word("chetverg")>>, friday |-> <<Word("pyatnitsa")>>,
     saturday |-> <<Word("subbota")>>, yesterday |-> <<Word("vchera")>>,
     tomorrow |-> <<Word("zavtra")>>,
     weekEnd |-> <<Word("konets"), Word("nedeli")>>]

\* KeywordDate without the week-end phrase
KeywordDateNoWeekEnd(default, input) ==
    LET has(keyword) == hasAll("ru", default, input, keyword)
    IN IF has(keywords.sunday) THEN WeekDay("Sunday")
       ELSE IF has(keywords.monday) THEN WeekDay("Monday")
       ELSE IF has(keywords.tuesday) THEN WeekDay("Tuesday")
       ELSE IF has(keywords.wednesday) THEN WeekDay("Wednesday")
       ELSE IF has(keywords.thursday) THEN WeekDay("Thursday")
       ELSE IF has(keywords.friday) THEN WeekDay("Friday")
       ELSE IF has(keywords.saturday) THEN WeekDay("Saturday")
       ELSE IF has(keywords.yesterday) THEN Relative(-1)
       ELSE IF has(keywords.tomorrow) THEN Relative(1)
       ELSE NoMoment

\* if (sunday && this.hasAll(locale, input, sunday)) ... else if ... : the
\* keyword chain of locale ru
KeywordDate(default, input) ==
    LET has(keyword) == hasAll("ru", default, input, keyword)
    IN IF has(keywords.sunday) THEN WeekDay("Sunday")
       ELSE IF has(keywords.monday) THEN WeekDay("Monday")
       ELSE IF has(keywords.tuesday) THEN WeekDay("Tuesday")
       ELSE IF has(keywords.wednesday) THEN WeekDay("Wednesday")
       ELSE IF has(keywords.thursday) THEN WeekDay("Thursday")
       ELSE IF has(keywords.friday) \/ has(keywords.weekEnd) THEN WeekDay("Friday")
       ELSE IF has(keywords.saturday) THEN WeekDay("Saturday")
       ELSE IF has(keywords.yesterday) THEN Relative(-1)
       ELSE IF has(keywords.tomorrow) THEN Relative(1)
       ELSE NoMoment

\* the literal dates that the grammars matching r yield
LiteralDates(r) ==
    {MomentOf(r[v].subs[1].groups[1], r[v].subs[1].groups[2], r[v].subs[1].groups[3]) :
        v \in {w \in {"iso"} : r[w].ok}}
    \cup {MomentOf(r[v].subs[1].groups[3], r[v].subs[1].groups[2], r[v].subs[1].groups[1]) :
        v \in {w \in {"long_locale_1", "long_locale_2"} : r[w].ok}}
    \cup {MomentOf(CurrentYear, r[v].subs[1].groups[2], r[v].subs[1].groups[1]) :
        v \in {w \in {"short_locale_1", "short_locale_2"} : r[w].ok}}

\* extractDate that gives the text to the keywords when the grammars that
\* matched yield different dates
extractDateUnanimous(locale, default, input) ==
    LET low == toLowerCase(input)
        m == match(low, dateSyntax)
    IN IF locale # "ru" THEN NoMoment
       ELSE IF m.matched /\ Cardinality(LiteralDates(m.results)) = 1
            THEN LiteralDate(m.results)
            ELSE KeywordDate(default, low)

\* extractDate that takes the default locale for a missing one, as stem does
extractDateDefaultLocale(locale, default, input) ==
    LET low == toLowerCase(input)
        m == match(low, dateSyntax)
        loc == IF locale = "" THEN default ELSE locale
    IN IF loc # "ru" THEN NoMoment
       ELSE IF m.matched THEN LiteralDate(m.results)
            ELSE KeywordDate(default, low)

\* Commander.extractDate(locale, input): the grammars and the keywords exist
\* for locale ru only
extractDate(locale, default, input) ==
    LET low == toLowerCase(input)
        m == match(low, dateSyntax)
    IN IF locale # "ru" THEN NoMoment
       ELSE IF m.matched THEN LiteralDate(m.results)
            ELSE KeywordDate(default, low)

\* the locales given to the helpers ("" is a missing locale) with the
\* default locale of the i18n service
Locales == {<<"ru", "en">>, <<"en", "ru">>, <<"", "ru">>, <<"", "en">>}

\* the words of the texts and phrases given to hasAll and hasAny
StemWords == {Word(w) : w \in {"zavtra", "Zavtra", "pyatnitsa", "pyatnitsu", "i",
                               "tomorrow", "coming", "come"}}

\* the tokens of the texts given to match, and the patterns of its variants
MatchTokens == {Word("zavtra"), Word("Zavtra"), Word("sreda"),
                DateToken("dotLong", <<5, 3, 2024>>)}
MatchPatterns == {Literal("zavtra"), Literal("Zavtra"), Literal("sreda"),
                  DatePattern("short_dot")}
MatchVariants == UNION {[1..n -> MatchPatterns] : n \in 0..2}

\* the tokens of the texts given to extractDate
DateWords == {Word(w) : w \in {"voskresenye", "ponedelnik", "vtornik", "sreda", "chetverg",
                               "pyatnitsa", "pyatnitsu", "subbota", "vchera", "zavtra",
                               "Zavtra", "konets", "nedeli", "i", "vstrecha"}}

\* a call of a helper and what it returned
HelperCall(op, locale, default, input, search, syntax, out) ==
    [op |-> op, locale |-> locale, default |-> default, input |-> input,
     search |-> search, syntax |-> syntax, out |-> out]

\* commander.hasAll(locale, input, search)
CallHasAll(locale, default, input, search) ==
    /\ call.op = "none"
    /\ call' = HelperCall("hasAll", locale, default, input, search, <<>>,
                          hasAll(locale, default, input, search))
    /\ UNCHANGED engine

\* commander.hasAny(locale, input, search)
CallHasAny(locale, default, input, search) ==
    /\ call.op = "none"
    /\ call' = HelperCall("hasAny", locale, default, input, search, <<>>,
                          hasAny(locale, default, input, search))
    /\ UNCHANGED engine

\* commander.match(input, syntax)
CallMatch(input, syntax) ==
    /\ call.op = "none"
    /\ call' = HelperCall("match", "", "", input, <<>>, syntax, match(input, syntax))
    /\ UNCHANGED engine

\* commander.extractDate(locale, input)
CallExtractDate(locale, default, input) ==
    /\ call.op = "none"
    /\ call' = HelperCall("extractDate", locale, default, input, <<>>, <<>>,
                          extractDate(locale, default, input))
    /\ UNCHANGED engine

\* one call is made on the commander, whichever it is
HelperNext ==
    \/ /\ call.op = "none"
       /\ \E l \in Locales, input \in TextsOf(StemWords), search \in TextsOf(StemWords) :
             CallHasAll(l[1], l[2], input, search)
    \/ /\ call.op = "none"
       /\ \E l \in Locales, input \in TextsOf(StemWords), search \in TextsOf(StemWords) :
             CallHasAny(l[1], l[2], input, search)
    \/ /\ call.op = "none"
       /\ \E input \in TextsOf(MatchTokens), v1 \in MatchVariants, v2 \in MatchVariants :
             CallMatch(input, [first |-> v1, second |-> v2])
    \/ /\ call.op = "none"
       /\ \E l \in Locales, input \in TextsOf(DateWords \cup DateTokens) :
             CallExtractDate(l[1], l[2], input)

HelperSpec == BridgeInit /\ [][HelperNext]_vars

\* ------------------------------------------------------------ the bot server
\* the two revisions of the server: the first calls startWebhook only, the
\* second registers the hook with setWebhook before it
ServerRevisions == {"startWebhook", "setWebhook"}

\* config sections a server may be asked for
ServerNames == {"main", "other"}

\* servers.<name>.webhook: disabled, enabled without or with key and cert
Webhooks == {"off", "http", "https"}

\* what the register of a middleware does: it returns a promise that
\* resolves or one that rejects, or something that is no promise
Registers == {"resolves", "rejects", "notPromise"}

\* the longest servers.<name>.middleware
MaxMiddleware == 2

MiddlewareConfigs == UNION {[1..n -> Registers] : n \in 0..MaxMiddleware}

\* constructor(app, config, logger, filer, util): name is null and there is
\* no bot; the configuration is the one the server will read
NewServer(rev, webhook, isArray, middleware) ==
    [op |-> "server", rev |-> rev, webhook |-> webhook, isArray |-> isArray,
     middleware |-> middleware, name |-> NoName, bot |-> FALSE, running |-> FALSE,
     listening |-> FALSE, init |-> "none", registered |-> 0, settled |-> 0,
     startedOk |-> FALSE, lastOp |-> "new", lastName |-> NoName, threw |-> FALSE]

\* the server is instantiated
Server(rev, webhook, isArray, middleware) ==
    /\ call.op = "none"
    /\ call' = NewServer(rev, webhook, isArray, middleware)
    /\ UNCHANGED engine

\* init(name) up to its return: the bot is created, listening is false, and
\* the reduce over the middleware configuration has built its chain of
\* promises, none of whose bodies has run beyond await prev
init(name) ==
    /\ call.op = "server" /\ call.init = "none"
    /\ call' = [call EXCEPT
                  !.name = name, !.bot = TRUE, !.listening = FALSE,
                  !.init = IF call.isArray /\ Len(call.middleware) > 0
                           THEN "pending" ELSE "resolved",
                  !.lastOp = "init", !.lastName = name, !.threw = FALSE]
    /\ UNCHANGED engine

\* the reducer without await prev: every register is invoked at once
CanRegisterEager(srv) == srv.registered < Len(srv.middleware)

\* await prev has returned in the reducer of the next middleware: the
\* promise of the one before it has resolved
CanRegister(srv) ==
    /\ srv.registered < Len(srv.middleware)
    /\ srv.settled = srv.registered

\* obj.register(this) of the next middleware is invoked; a result that is no
\* promise makes the reducer throw, which rejects its promise and with it
\* every later one
Register ==
    /\ call.op = "server" /\ call.init = "pending"
    /\ CanRegister(call)
    /\ LET i == call.registered + 1
       IN call' = [call EXCEPT
                     !.registered = i,
                     !.init = IF call.middleware[i] = "notPromise" THEN "rejected" ELSE @,
                     !.lastOp = "register", !.threw = (call.middleware[i] = "notPromise")]
    /\ UNCHANGED engine

\* the promise returned by the last register invoked settles
Settle ==
    /\ call.op = "server" /\ call.init = "pending"
    /\ call.settled < call.registered
    /\ LET i == call.registered
           ok == call.middleware[i] = "resolves"
       IN call' = [call EXCEPT
                     !.settled = IF ok THEN i ELSE @,
                     !.init = IF ~ok THEN "rejected"
                              ELSE IF i = Len(call.middleware) THEN "resolved" ELSE @,
                     !.lastOp = "settle", !.threw = ~ok]
    /\ UNCHANGED engine

\* start(name); readFails: reading the key or the certificate fails
start(name, readFails) ==
    /\ call.op = "server"
    /\ readFails => call.webhook = "https"
    /\ LET throws == name # call.name \/ readFails \/ ~call.bot
       IN call' = [call EXCEPT
                     !.running = IF throws THEN @ ELSE TRUE,
                     !.listening = IF throws \/ call.rev = "setWebhook" THEN @ ELSE TRUE,
                     !.startedOk = IF throws THEN @ ELSE TRUE,
                     !.lastOp = "start", !.lastName = name, !.threw = throws]
    /\ UNCHANGED engine

\* stop(name)
stop(name) ==
    /\ call.op = "server"
    /\ LET throws == name # call.name
           stops == ~throws /\ call.bot /\ call.listening
       IN call' = [call EXCEPT
                     !.running = IF stops THEN FALSE ELSE @,
                     !.bot = IF stops THEN FALSE ELSE @,
                     !.listening = IF stops THEN FALSE ELSE @,
                     !.lastOp = "stop", !.lastName = name, !.threw = throws]
    /\ UNCHANGED engine

ServerNext ==
    \/ \E rev \in ServerRevisions, webhook \in Webhooks, isArray \in BOOLEAN,
          middleware \in MiddlewareConfigs : Server(rev, webhook, isArray, middleware)
    \/ \E name \in ServerNames : init(name)
    \/ Register
    \/ Settle
    \/ \E name \in ServerNames, readFails \in BOOLEAN : start(name, readFails)
    \/ \E name \in ServerNames : stop(name)

ServerSpec == BridgeInit /\ [][ServerNext]_vars

\* ------------------------------------------------------------ the pager widget
\* the greatest offset and number of pages given to the pager
MaxOffset == 4
MaxTotalPages == 12

\* the offsets a caller or a callback query may carry, the numbers of pages a
\* search may report, and the widths the pager may be given
Offsets == (0 - 1)..MaxOffset
TotalPages == 0..MaxTotalPages
Widths == {1, 3, 10}

\* Math.ceil(a / b) for a >= 0 and b > 0
Ceil(a, b) == (a + b - 1) \div b

\* Pager._getMarkup(info, extra): info.offset after the two tests, and the
\* pages that get a -page- button in that group of pages
getMarkup(offset, totalPages, width) ==
    LET low == IF offset < 1 THEN 1 ELSE offset
        maxOffset == Ceil(totalPages, width)
        clamped == IF low > maxOffset THEN maxOffset ELSE low
        full == 2 * (clamped - 1) * width + width - 2 < 2 * totalPages
        count == IF full THEN width ELSE Ceil(width, 2) - 1
    IN [offset |-> clamped,
        pages |-> {page \in {(clamped - 1) * width + i + 1 : i \in 0..(count - 1)} :
                     page <= totalPages}]

\* pager._getMarkup on the result of a search
CallGetMarkup(offset, totalPages, width) ==
    /\ call.op = "none"
    /\ call' = [op |-> "getMarkup", offset |-> offset, totalPages |-> totalPages,
                width |-> width, out |-> getMarkup(offset, totalPages, width)]
    /\ UNCHANGED engine

PagerNext ==
    /\ call.op = "none"
    /\ \E offset \in Offsets, totalPages \in TotalPages, width \in Widths :
          CallGetMarkup(offset, totalPages, width)

PagerSpec == BridgeInit /\ [][PagerNext]_vars

\* ------------------------------------------------------------ observations
\* the message of the most recent step, while its ctx is alive
LastMsg == msgs[last.m]

\* the message of the most recent step has been through process
Processed == last.kind = "process"

\* the registered commands whose syntax matches the text
Matching(text) == {c \in Range(commands) : CommandMatched(c, text)}

\* the registered commands whose process returns true for the text in the
\* priority-table revision
Accepting(text) == {c \in Range(commands) : c.hasProcess /\ CommandProcess(c, text) = "true"}

\* another message of the same identity is being handled right now
Overlapped(m) ==
    \E k \in Msgs \ {m} : msgs[k].pc \in {"downstream", "processed"} /\ msgs[k].from = msgs[m].from

\* position of a name in Commander.commands, the order in which the names
\* were registered first
Registered(name) == CHOOSE i \in 1..Len(commands) : commands[i].name = name

\* the messages that are between hydration and save
Flying == {m \in Msgs : msgs[m].pc \in {"downstream", "processed"}}

\* the repository after the save of message k, were it to happen on repo
SaveStore(repo, k) ==
    IF msgs[k].session = NoSession THEN repo
    ELSE Updated(config, repo,
                 [msgs[k].session EXCEPT !.payload = msgs[k].ctx, !.user = msgs[k].user],
                 From(msgs[k].from), FALSE).store

\* process on the ctx of message k, were it to happen with registry cbs and
\* the next random string id
ProcessOf(k, cbs, id, text, b) ==
    process(revision, msgs[k].ctx, cbs, commands, priorities, text, b, id)

\* two outcomes of process that differ at most in the random strings drawn
SameOutcome(e, f) ==
    /\ e.invoked = f.invoked /\ e.evaluated = f.evaluated /\ e.matched = f.matched
    /\ e.handler = f.handler /\ e.result = f.result /\ e.threw = f.threw
    /\ e.logged = f.logged /\ e.replied = f.replied /\ e.usedId = f.usedId
    /\ e.ctx.data = f.ctx.data
    /\ (e.ctx.callback = NoToken) = (f.ctx.callback = NoToken)

\* the steps of two messages of different identities may be exchanged:
\* save and save, hydrate and save, process and process
Commute(k1, k2) ==
    /\ SaveStore(SaveStore(store, k1), k2) = SaveStore(SaveStore(store, k2), k1)
    /\ \A id \in Ids \ {msgs[k1].from} :
          Hydrated(config, SaveStore(store, k1), From(id), FALSE)
              = Hydrated(config, store, From(id), FALSE)
    /\ (msgs[k1].pc = "downstream" /\ msgs[k2].pc = "downstream") =>
          \A t1, t2 \in Texts, b1, b2 \in Behaviours :
             LET alone == ProcessOf(k1, callbacks, nextId, t1, b1)
                 other == ProcessOf(k2, callbacks, nextId, t2, b2)
                 after == ProcessOf(k1, other.callbacks,
                                    IF other.usedId THEN nextId + 1 ELSE nextId, t1, b1)
                 otherAfter == ProcessOf(k2, alone.callbacks,
                                         IF alone.usedId THEN nextId + 1 ELSE nextId, t2, b2)
             IN /\ SameOutcome(alone, after)
                /\ Cardinality(after.callbacks) = Cardinality(otherAfter.callbacks)

\* ------------------------------------------------------------------ claims
\* C1: when process finds a pending token that resolves to a registered
\* continuation, that continuation is invoked and the process of no command
\* is evaluated for the message.
C1_ContinuationSkipsMatching ==
    (Processed /\ last.found) =>
        /\ last.invoked = last.pending
        /\ last.evaluated = <<>>
        /\ last.handler = NoName

\* a continuation was consumed by a message that a registered command matches
C1_Witness ==
    /\ Processed /\ last.found /\ last.invoked # NoToken
    /\ last.outcome = "pending"
    /\ Matching(last.text) # {}

\* C2: a token is accepted by exactly one process call; over any sequence of
\* messages of the session, handled one after the other, no continuation is
\* invoked a second time.
C2_TokenAcceptedOnce ==
    (Processed /\ last.outcome = "pending" /\ LastMsg.solo) => ~last.twice

\* C3: once process has consumed a pending continuation, the registry holds
\* no entry for that token.
C3_EntryRemovedOnConsume ==
    (Processed /\ last.found) => last.pending \notin callbacks

\* C4: in the priority-table revision, of two registered commands that both
\* accept the message the one with the smaller priority handles it, process
\* returns true at once and the other one is never evaluated.
C4_LowestPriorityHandles ==
    (Processed /\ revision = "strict" /\ ~last.found /\ last.outcome = "pending") =>
        \A c1, c2 \in Accepting(last.text) :
            c1.priority < c2.priority =>
                /\ last.handler = c1.name
                /\ last.result
                /\ c2.name \notin Range(last.evaluated)

\* C5 as stated: in the multiple-match revision a message that matches two
\* distinct commands makes process resolve to false and no handler runs.
C5_AmbiguousResolvesFalse ==
    (Processed /\ revision = "exclusive" /\ Cardinality(Matching(last.text)) >= 2
        /\ last.outcome = "pending") =>
        /\ last.result = FALSE
        /\ last.handler = NoName

\* C5 amended: in the multiple-match revision a message that matches two
\* distinct commands never reaches the handler of any command; process
\* resolves to false unless a pending continuation consumed the message, and
\* then to what the continuation returned.
C5_AmbiguousRunsNoHandler ==
    (Processed /\ revision = "exclusive" /\ Cardinality(Matching(last.text)) >= 2
        /\ last.outcome = "pending") =>
        /\ last.handler = NoName
        /\ last.evaluated = <<>>
        /\ ~last.found => (last.result = FALSE /\ ~last.threw /\ last.invoked = NoToken)

\* two distinct commands matched a message that went through matching
C5_Witness ==
    /\ Processed /\ revision = "exclusive" /\ ~last.found
    /\ Cardinality(Matching(last.text)) >= 2
    /\ last.result = FALSE

\* C6: a message whose session was found or created has its session saved
\* exactly once when downstream processing has ended, however it ended.
C6_SavedExactlyOnce ==
    (last.kind = "end" /\ last.hadSession) => last.saves = 1

\* C7: an exception of a continuation or of a command's process is caught
\* inside process: process resolves to false, the error is logged, the
\* command table is unchanged and the message goes on to the session save.
C7_ExceptionCaught ==
    [][\A m \in Msgs :
         (msgs[m].pc = "downstream" /\ msgs'[m].pc # "downstream"
             /\ last'.kind = "process" /\ last'.threw) =>
            /\ msgs'[m].pc = "processed"
            /\ last'.outcome = "pending"
            /\ last'.result = FALSE
            /\ last'.logged
            /\ commands' = commands
            /\ priorities' = priorities]_vars

\* a command threw while a later message was being dispatched
C7_Witness ==
    /\ Processed /\ last.threw /\ last.evaluated # <<>>
    /\ LastMsg.pc = "processed"
    /\ last.m > 1

\* C8: when the session save throws, the error is logged, the promise of the
\* middleware resolves and the stored record stays as it was, so that later
\* messages are hydrated, handled and saved as usual.
C8_SaveFailureContained ==
    [][\A m \in Msgs :
         (msgs[m].pc \in {"downstream", "processed"} /\ last'.kind = "end"
             /\ last'.m = m /\ last'.saveFailed) =>
            /\ last'.logged
            /\ last'.outcome = "resolved"
            /\ msgs'[m].pc = "done"
            /\ store' = store
            /\ callbacks' = callbacks
            /\ \A k \in Msgs \ {m} : msgs'[k] = msgs[k]]_vars

\* the save of identity 1 failed, and the later message of identity 2 was
\* hydrated, handled and saved
C8_Witness ==
    /\ failed = {1}
    /\ Delivered = 2 /\ InFlight = 0
    /\ last.kind = "end" /\ ~last.saveFailed /\ last.saves = 1 /\ last.outcome = "resolved"
    /\ Len(store[TelegramId(2)]) = 1 /\ store[TelegramId(2)][1].payload.data # {}

\* C9: when loading or creating the session throws, the error is logged and
\* downstream handling runs with ctx.session empty and ctx.user null.
C9_HydrationFailureProceeds ==
    (last.kind = "hydrate" /\ last.hydFailed) =>
        /\ last.logged
        /\ LastMsg.pc = "downstream"
        /\ LastMsg.ctx = EmptyPayload
        /\ LastMsg.user = NoUser
        /\ LastMsg.session = NoSession

\* loading failed for an identity whose stored session is linked to a user
C9_Witness ==
    /\ last.kind = "hydrate" /\ last.hydFailed
    /\ LastMsg.from = 1 /\ store[TelegramId(1)][1].userId = "u1"

\* C10: of two messages of one identity that are in flight at the same time
\* at most one invokes a continuation that was registered once.
C10_NoDoubleConsume ==
    (Processed /\ last.outcome = "pending" /\ Overlapped(last.m)) => ~last.twice

\* C11: messages of one identity are handled one after the other, so that no
\* save overwrites the update of another message: handlers only add keys to
\* the payload, hence no save ever takes a key out of a stored payload.
C11_NoLostUpdate ==
    [][\A t \in TelegramIds : \A i \in 1..Len(store[t]) :
         store[t][i].payload.data \subseteq store'[t][i].payload.data]_vars

\* C12: when the handler of a message called setCallback and the save of the
\* message stored the session, the next message of the same user, if it is
\* loaded, invokes that continuation (as long as the registry holds it) and
\* evaluates no command.
C12_TokenSurvives ==
    (Processed /\ LastMsg.expect.saved /\ LastMsg.expect.registered
        /\ LastMsg.expect.payload.callback \in callbacks) =>
        /\ last.invoked = LastMsg.expect.payload.callback
        /\ last.evaluated = <<>>

\* C13: when the save of a message stored the session, the payload that the
\* next message of the same identity finds is the whole ctx.session of that
\* message.
C13_PayloadRoundTrip ==
    (last.kind = "hydrate" /\ ~last.hydFailed /\ LastMsg.expect.saved) =>
        LastMsg.ctx = LastMsg.expect.payload

\* C14: a callback field that names a token without a registry entry is
\* cleared and nothing is invoked; the message is handled exactly as a
\* message whose session has no callback field, so the dangling token
\* raises and logs nothing of its own.
C14_DanglingTokenIgnored ==
    [][\A m \in Msgs :
         (msgs[m].pc = "downstream" /\ last'.kind = "process" /\ last'.m = m
             /\ msgs[m].ctx.callback # NoToken /\ msgs[m].ctx.callback \notin callbacks) =>
            LET clean == [msgs[m].ctx EXCEPT !.callback = NoToken]
                e == process(revision, clean, callbacks, commands, priorities,
                             last'.text, "true", nextId)
            IN /\ last'.invoked = NoToken
               /\ ~last'.found
               /\ msgs'[m].ctx = e.ctx
               /\ callbacks' = e.callbacks
               /\ last'.evaluated = e.evaluated
               /\ last'.handler = e.handler
               /\ last'.result = e.result
               /\ last'.threw = e.threw
               /\ last'.logged = e.logged]_vars

\* a message whose session named a token that the registry had lost was
\* handled by a command
C14_Witness ==
    /\ Processed /\ last.pending # NoToken /\ ~last.found
    /\ last.handler # NoName /\ last.result
    /\ LastMsg.ctx.callback # last.pending

\* C15: when a command's process or a continuation throws, the failure is
\* logged and the error reply is sent to the user.
C15_ErrorReplySent ==
    (Processed /\ last.threw) => (last.logged /\ last.replied)

\* C16: in the priority-table revision, of two registered commands of equal
\* priority that both accept the message, the one registered later does not
\* handle it.
C16_TieFirstRegistered ==
    (Processed /\ revision = "strict" /\ ~last.found /\ last.outcome = "pending") =>
        \A c1, c2 \in Accepting(last.text) :
            (c1.priority = c2.priority /\ Registered(c1.name) < Registered(c2.name)) =>
                /\ last.handler # c2.name
                /\ c2.name \notin Range(last.evaluated)

\* C17: the registry never holds two entries of one session: of the token
\* that the session of a message named when process began and the token it
\* names afterwards, at most one has an entry.
C17_OnePendingEntry ==
    (Processed /\ last.outcome = "pending") =>
        Cardinality(({last.pending, LastMsg.ctx.callback} \ {NoToken}) \cap callbacks) <= 1

\* C18: the repository never holds more than one session record of an
\* identity.
C18_OneRecordPerIdentity ==
    \A t \in TelegramIds : Len(store[t]) <= 1

\* C19 as stated: create returns a session with telegramId = from.id as a
\* string, an empty payload, info = from and the given user; it fails and
\* returns no session when from or from.id is absent.
C19_CreateReturnsSession ==
    call.op = "create" =>
        IF InvalidFrom(call.from)
        THEN call.threw /\ call.out = NoSession
        ELSE /\ ~call.threw
             /\ call.out.telegramId = ToString(call.from.id)
             /\ call.out.payload = EmptyPayload
             /\ call.out.info = call.from
             /\ call.out.user = call.user

\* C19 amended: the same when the bridge has a session model; with neither a
\* model nor a session repository configured create fails for every input.
C19_CreateWithModel ==
    call.op = "create" =>
        IF InvalidFrom(call.from) \/ createThrows(call.cfg)
        THEN call.threw /\ call.out = NoSession
        ELSE /\ ~call.threw
             /\ call.out.telegramId = ToString(call.from.id)
             /\ call.out.payload = EmptyPayload
             /\ call.out.info = call.from
             /\ call.out.user = call.user

\* create returned a session linked to the given user
C19_Witness ==
    /\ call.op = "create" /\ ~call.threw
    /\ call.out.telegramId = "2" /\ call.out.user = "u1" /\ call.out.userId = "u1"

\* C20: find returns none when the repository has no record; a record whose
\* user id cannot be resolved is still returned, with user = none and no
\* error; every session find returns has info = from.
C20_FindResolves ==
    call.op = "find" =>
        /\ ~call.threw
        /\ call.rows = <<>> => call.out = NoSession
        /\ (call.cfg.sessionRepo /\ call.rows # <<>>) =>
              /\ call.out # NoSession
              /\ call.out.telegramId = call.telegramId
              /\ call.out.payload = call.rows[1].payload
              /\ (call.cfg.userRepo /\ call.rows[1].userId = Dangling) => call.out.user = NoUser
        /\ call.out # NoSession => call.out.info = call.from

\* a record with a dangling user id was found for a sender whose metadata
\* differs from the stored info
C20_Witness ==
    /\ call.op = "find" /\ call.cfg.userRepo
    /\ call.rows # <<>> /\ call.rows[1].userId = Dangling
    /\ call.out # NoSession /\ call.out.user = NoUser
    /\ call.out.info = call.from /\ call.from # call.rows[1].info

\* C21: save sets info to from and userId to the id of session.user (none
\* without a user) and stores the whole record, in the row the model was
\* read from or in a new row; without a session repository it stores
\* nothing; it raises no error.
C21_SavePersistsRecord ==
    call.op = "save" =>
        LET row == IF call.session.id = 0 THEN Len(call.rows) + 1 ELSE call.session.id
        IN /\ ~call.threw
           /\ ~call.cfg.sessionRepo => call.saved = call.rows
           /\ call.cfg.sessionRepo =>
                /\ Len(call.saved) = IF call.session.id = 0 THEN Len(call.rows) + 1
                                                              ELSE Len(call.rows)
                /\ call.saved[row].info = call.from
                /\ call.saved[row].userId = call.session.user
                /\ call.saved[row].payload = call.session.payload
                /\ call.saved[row].telegramId = call.session.telegramId
                /\ \A i \in 1..Len(call.rows) : i # row => call.saved[i] = call.rows[i]

\* a session whose user was unlinked, with a stale userId and new sender
\* metadata, was saved over its row
C21_Witness ==
    /\ call.op = "save" /\ call.cfg.sessionRepo
    /\ call.session.id = 1 /\ call.session.user = NoUser /\ call.session.userId = "u1"
    /\ call.from # call.session.info
    /\ call.saved[1].userId = NoUser /\ call.saved[1].info = call.from
    /\ call.saved[1].payload.data # {}

C29_TrueWhenHandled ==
    (Processed /\ last.outcome = "pending" /\ ~last.threw
        /\ (last.found \/ last.handler # NoName)) => last.result

\* C29 amended: process resolves to true when a command accepted the
\* message, to what the continuation returned when a pending continuation was
\* invoked, and to false when nothing accepted the message or handling threw.
C29_ResultOfHandling ==
    (Processed /\ last.outcome = "pending") =>
        /\ last.threw => ~last.result
        /\ (~last.found /\ ~last.threw) => (last.result <=> last.handler # NoName)
        /\ (last.found /\ ~last.threw) =>
              (last.result <=> last.behaviour \in {"true", "again"})
        /\ (revision = "strict" /\ ~last.found /\ ~last.result /\ ~last.threw) =>
              Accepting(last.text) = {}

\* a continuation was invoked and returned false
C29_Witness ==
    /\ Processed /\ last.found /\ last.behaviour = "false"
    /\ ~last.result /\ ~last.threw /\ last.outcome = "pending"

\* C30: no keyboard made under the limits in force offers a selectable
\* button for a day before the min date or after the max date.
C30_NoDayOutsideLimits ==
    (call.op = "calendar" /\ call.page.current) =>
        \A d \in call.page.selectable :
            LET day == [y |-> call.page.date.y, m |-> call.page.date.m, d |-> d]
                DateBefore(a, b) == \/ a.y < b.y
                                    \/ a.y = b.y /\ a.m < b.m
                                    \/ a.y = b.y /\ a.m = b.m /\ a.d < b.d
            IN /\ call.minDate # NoDate => ~DateBefore(day, call.minDate)
               /\ call.maxDate # NoDate => ~DateBefore(call.maxDate, day)

\* C24: hasAll returns true exactly when every stem of the phrase is among
\* the stems of the text and hasAny exactly when at least one is, whatever the
\* locale; a phrase without stems makes hasAll true and hasAny false.
C24_StemContainment ==
    call.op \in {"hasAll", "hasAny"} =>
        LET textStems == Range(stem(call.locale, call.default, call.input))
            phraseStems == Range(stem(call.locale, call.default, call.search))
        IN /\ call.op = "hasAll" => (call.out <=> phraseStems \subseteq textStems)
           /\ call.op = "hasAny" => (call.out <=> phraseStems \cap textStems # {})
           /\ phraseStems = {} => (call.out <=> call.op = "hasAll")

\* hasAll is true of a two-word phrase whose stems are both in a text that
\* holds the words in another form
C24_Witness ==
    /\ call.op = "hasAll" /\ call.out
    /\ Len(stem(call.locale, call.default, call.search)) = 2
    /\ Range(call.search) \cap Range(call.input) = {}

\* C25: match reports a variant as matched, with one sub-match per pattern,
\* exactly when every pattern of the variant matches the lower-cased input,
\* reports every other variant as the no-match sentinel, and returns false
\* exactly when no variant matched.
C25_MatchVariants ==
    call.op = "match" =>
        LET low == toLowerCase(call.input)
            AllMatch(v) == \A i \in 1..Len(call.syntax[v]) :
                              \E k \in 1..Len(low) : Finds(call.syntax[v][i], low[k])
        IN /\ call.out.matched <=> \E v \in DOMAIN call.syntax : AllMatch(v)
           /\ call.out.matched =>
                \A v \in DOMAIN call.syntax :
                   LET r == call.out.results[v]
                   IN /\ r.ok <=> AllMatch(v)
                      /\ ~r.ok => r = NoMatch
                      /\ r.ok =>
                           /\ Len(r.subs) = Len(call.syntax[v])
                           /\ \A i \in 1..Len(r.subs) :
                                 /\ r.subs[i].found
                                 /\ Finds(call.syntax[v][i], low[r.subs[i].token])

\* a text typed with a capital matched both patterns of one variant and not
\* the other variant
C25_Witness ==
    /\ call.op = "match" /\ call.out.matched
    /\ call.input # toLowerCase(call.input)
    /\ call.out.results.first.ok /\ Len(call.out.results.first.subs) = 2
    /\ call.syntax.first[1] # call.syntax.first[2]
    /\ call.out.results.second = NoMatch

\* the literal dates of a text
DatesIn(input) == {i \in 1..Len(input) : input[i].kind # "word"}

FirstRecognised(fridayPhrases) ==
    LET Recognised(phrase) ==
            Range(stem("ru", call.default, phrase))
                \subseteq Range(stem("ru", call.default, call.input))
        order == << [phrases |-> {keywords.sunday}, out |-> WeekDay("Sunday")],
                    [phrases |-> {keywords.monday}, out |-> WeekDay("Monday")],
                    [phrases |-> {keywords.tuesday}, out |-> WeekDay("Tuesday")],
                    [phrases |-> {keywords.wednesday}, out |-> WeekDay("Wednesday")],
                    [phrases |-> {keywords.thursday}, out |-> WeekDay("Thursday")],
                    [phrases |-> fridayPhrases, out |-> WeekDay("Friday")],
                    [phrases |-> {keywords.saturday}, out |-> WeekDay("Saturday")],
                    [phrases |-> {keywords.yesterday}, out |-> Relative(-1)],
                    [phrases |-> {keywords.tomorrow}, out |-> Relative(1)] >>
        hits == {i \in 1..Len(order) : \E p \in order[i].phrases : Recognised(p)}
    IN IF hits = {} THEN NoMoment
       ELSE order[CHOOSE h \in hits : \A g \in hits : h <= g].out

\* C27 as stated: when no literal grammar matches, the result is that of the
\* first keyword recognised in the order Sunday .. Saturday, yesterday,
\* tomorrow, and there is no date when none of the nine is recognised.
C27_NineKeywords ==
    (call.op = "extractDate" /\ call.locale = "ru" /\ DatesIn(call.input) = {}) =>
        call.out = FirstRecognised({keywords.friday})

\* C27 amended: when no literal grammar matches, the result is that of the
\* first keyword recognised in the order Sunday .. Saturday, yesterday,
\* tomorrow, where Friday is recognised by its keyword or by the week-end
\* phrase; there is no date when none of these is recognised.
C27_KeywordOrder ==
    (call.op = "extractDate" /\ call.locale = "ru" /\ DatesIn(call.input) = {}) =>
        call.out = FirstRecognised({keywords.friday, keywords.weekEnd})

\* a text with tomorrow and then Friday, in an inflected form, yields Friday
C27_Witness ==
    /\ call.op = "extractDate" /\ call.locale = "ru"
    /\ call.input = <<Word("Zavtra"), Word("pyatnitsu")>>
    /\ hasAll("ru", call.default, call.input, keywords.tomorrow)
    /\ hasAll("ru", call.default, call.input, keywords.friday)
    /\ call.out = WeekDay("Friday")

\* C28 as stated: when the literal grammars that match yield different
\* dates, none of those dates is returned and the keywords are tried; a
\* literal date is returned only when the grammars do not disagree.
C28_DisagreementToKeywords ==
    (call.op = "extractDate" /\ call.locale = "ru") =>
        LET low == toLowerCase(call.input)
            m == match(low, dateSyntax)
        IN /\ (m.matched /\ Cardinality(LiteralDates(m.results)) > 1) =>
                 (call.out \notin LiteralDates(m.results) /\ call.out = KeywordDate(call.default, low))
           /\ call.out.kind = "date" =>
                 (m.matched /\ Cardinality(LiteralDates(m.results)) = 1)

\* the date of the first form found in the text in the order YYYY-MM-DD,
\* DD.MM.YYYY, DD/MM/YYYY, DD.MM, DD/MM (a full date also reads as a short one)
FirstForm(input) ==
    LET has(kinds) == \E i \in 1..Len(input) : input[i].kind \in kinds
        FirstOf(text, kinds) ==
            text[CHOOSE i \in 1..Len(text) :
                    /\ text[i].kind \in kinds
                    /\ \A j \in 1..(i - 1) : text[j].kind \notin kinds]
        decided(y, m, d) == IF y = 0 \/ m = 0 \/ d = 0 THEN NoMoment
                            ELSE Moment(IF y < 1000 THEN y + 2000 ELSE y, m, d)
        long(t) == decided(t.parts[3], t.parts[2], t.parts[1])
        short(t) == decided(CurrentYear, t.parts[2], t.parts[1])
    IN IF has({"iso"})
       THEN LET t == FirstOf(input, {"iso"}) IN decided(t.parts[1], t.parts[2], t.parts[3])
       ELSE IF has({"dotLong"}) THEN long(FirstOf(input, {"dotLong"}))
       ELSE IF has({"slashLong"}) THEN long(FirstOf(input, {"slashLong"}))
       ELSE IF has({"dotShort"}) THEN short(FirstOf(input, {"dotShort"}))
       ELSE short(FirstOf(input, {"slashShort", "slashLong"}))

\* C28 amended: when one or more literal grammars match, the date is the one
\* of the first grammar that matches in the order YYYY-MM-DD, DD.MM.YYYY,
\* DD/MM/YYYY, DD.MM, DD/MM, whatever the other grammars yield, and the
\* keywords are not tried; the keywords are tried only when no grammar
\* matches.
C28_FirstGrammarWins ==
    (call.op = "extractDate" /\ call.locale = "ru") =>
        /\ DatesIn(call.input) # {} => call.out = FirstForm(call.input)
        /\ DatesIn(call.input) = {} => call.out.kind # "date"

\* a full date, which the short grammar reads in the current year, next to a
\* keyword: the full date is returned
C28_Witness ==
    /\ call.op = "extractDate" /\ call.locale = "ru"
    /\ call.input = <<DateToken("dotLong", <<17, 3, 2024>>), Word("zavtra")>>
    /\ Cardinality(LiteralDates(match(call.input, dateSyntax).results)) = 2
    /\ call.out = Moment(2024, 3, 17)

\* C31: _priorities holds exactly one entry per registered name, sorted by
\* ascending priority, and the priority of each entry is the priority of the
\* command stored under its name.
C31_PrioritiesConsistent ==
    revision = "strict" =>
        /\ {priorities[i].name : i \in 1..Len(priorities)}
              = {commands[i].name : i \in 1..Len(commands)}
        /\ Len(priorities) = Len(commands)
        /\ \A i, j \in 1..Len(priorities) :
              i < j => priorities[i].priority <= priorities[j].priority
        /\ \A i \in 1..Len(priorities), j \in 1..Len(commands) :
              priorities[i].name = commands[j].name =>
                 priorities[i].priority = commands[j].priority

\* C32: a stored session that is linked to a user keeps its userId through a
\* load followed by a save when the handler leaves ctx.user alone, whatever the
\* user repository is or finds.
C32_LinkKept ==
    (call.op = "message" /\ call.cfg.sessionRepo /\ Len(call.rows) > 0
        /\ call.rows[1].userId # NoUser) =>
        /\ Len(call.saved) = Len(call.rows)
        /\ call.saved[1].userId = call.rows[1].userId

\* C33: a message whose hydration failed writes nothing: it has no session,
\* its then-callback does not call update, the step that ends it leaves the
\* repository as it was, and what the handler put into ctx.session goes with
\* the ctx.
C33_FailedHydrationWritesNothing ==
    /\ [](\A m \in Msgs : msgs[m].hydFailed => msgs[m].session = NoSession)
    /\ [][\A m \in Msgs :
            (msgs[m].hydFailed /\ msgs'[m].pc = "done") =>
               /\ store' = store
               /\ previous' = previous
               /\ ~last'.hadSession /\ last'.saves = msgs[m].saves
               /\ msgs'[m].ctx = EmptyPayload]_vars

\* a message whose hydration failed was handled, the handler wrote into
\* ctx.session, and the message has ended without a save
C33_Witness ==
    /\ last.kind = "end" /\ last.hydFailed /\ last.dirty
    /\ ~last.hadSession /\ last.saves = 0
    /\ Len(store[TelegramId(1)]) = 1

\* C36: for a locale other than ru, a missing one included, extractDate
\* returns no date whatever the text holds.
C36_OnlyRuHasDates ==
    (call.op = "extractDate" /\ call.locale # "ru") => call.out = NoMoment

\* a text with a full date and a keyword, no locale given and ru the default
\* locale: no date
C36_Witness ==
    /\ call.op = "extractDate" /\ call.locale = "" /\ call.default = "ru"
    /\ call.input = <<DateToken("iso", <<2024, 3, 5>>), Word("zavtra")>>
    /\ call.out = NoMoment

\* C34: in the revision that calls setWebhook, a successful start(name)
\* after init(name) leaves the server listening, a following stop(name)
\* stops the bot and leaves listening false and bot null, and start and stop
\* with another name fail and change nothing.
C34_StartStop ==
    /\ []((call.op = "server" /\ call.rev = "setWebhook") =>
            /\ (call.lastOp = "start" /\ ~call.threw) => call.listening
            /\ (call.lastOp = "stop" /\ ~call.threw /\ call.startedOk) =>
                  (~call.running /\ ~call.listening /\ ~call.bot))
    /\ [][(call.op = "server" /\ call'.op = "server" /\ call.rev = "setWebhook"
             /\ call'.lastOp \in {"start", "stop"} /\ call'.lastName # call.name) =>
            /\ call'.threw
            /\ call' = [call EXCEPT !.lastOp = call'.lastOp, !.lastName = call'.lastName,
                                    !.threw = TRUE]]_vars

\* C35: the register of a middleware is invoked only after the promise of
\* the register before it in the configuration has resolved; after a
\* registration that failed or returned no promise none is invoked.
C35_MiddlewareInOrder ==
    /\ [](call.op = "server" =>
            /\ call.registered <= call.settled + 1
            /\ \A j \in 1..call.settled : call.middleware[j] = "resolves"
            /\ \A j \in 1..(call.registered - 1) : call.middleware[j] = "resolves"
            /\ call.init = "resolved" =>
                  (call.isArray => call.settled = Len(call.middleware)))
    /\ [][(call.op = "server" /\ call'.op = "server"
             /\ call'.registered # call.registered) =>
            /\ call'.registered = call.registered + 1
            /\ call.settled = call.registered
            /\ call.init = "pending"]_vars

\* the second middleware was registered after the first one's promise had
\* resolved, and its own rejection ended init
C35_Witness ==
    /\ call.op = "server" /\ Len(call.middleware) = 2
    /\ call.registered = 2 /\ call.settled = 1
    /\ call.init = "rejected" /\ call.lastOp = "settle"

\* C37: after _getMarkup info.offset is at least 1, and at most
\* ceil(totalPages / width) when totalPages > 0.
C37_OffsetClamped ==
    call.op = "getMarkup" =>
        /\ 1 <= call.out.offset
        /\ call.totalPages > 0 => call.out.offset <= Ceil(call.totalPages, call.width)
====
